---- MODULE Spec2Model ----
(***************************************************************************)
(* A model of the test-coverage tree extension: the coverage map and its   *)
(* refresh (FileTreeProvider.updateCoverageData and the three report       *)
(* readers), the directory walk (getFileItems) and the symbol extraction   *)
(* (getClassGroups, getMethodsForClass).                                   *)
(*                                                                         *)
(* JavaScript runs one job at a time.  A call of an async function runs    *)
(* synchronously up to its first await; what follows the await is a job    *)
(* of the promise-job queue, and jobs run in the order they were queued.   *)
(* Between two jobs the model lets the host deliver other events (a        *)
(* reader, a second refresh, a change of a report file on disk).           *)
(***************************************************************************)
EXTENDS Integers, Sequences, FiniteSets, TLC

VARIABLES
  reports,       \* the report files under <root>/coverage, per format
  coverageData,  \* FileTreeProvider.coverageData : path -> percentage
  tasks,         \* the calls of updateCoverageData (0: the constructor's)
  jobs,          \* the promise-job queue, oldest first
  changes,       \* number of changes made to the report files so far
  seen,          \* history: what a synchronous reader of the map has just seen
  stable,        \* history: the map when the first refresh() since the files changed completed
  raced,         \* history: the refresh() calls started while an earlier one, begun before the files last changed, was in flight
  fs,            \* the workspace directory: relative path of an entry -> its kind
  source,        \* the syntax tree of the text of the workspace's source files
  shown,         \* the tree items that getChildren has returned so far
  calls,         \* history: the getChildren calls made since the workspace last changed
  edits,         \* number of changes made to the workspace so far
  lastCoverage,  \* FileTreeItem.lastCoverage : path -> percentage last displayed
  activeTestGenerations,  \* the registry of extension.ts : path -> generation
  processes,     \* the child processes spawned by generateTests
  requests,      \* history: the generateTests invocations and what each did
  fileName,  \* the base name given to isTestFile
  excluded, \* what isTestFile returned for it
  site,  \* the arrow function whose label is computed, with its parent
  labels, \* the labels computed for it
  lcovLines,  \* the lines of the LCOV file given to updateFromLcov
  lcovResult, \* the map entries updateFromLcov made from them
  coveragePath,  \* the testGenerator.coveragePath setting
  watchers,  \* the file system watchers of context.subscriptions
  delivered, \* the file event delivered last, and whether it called refresh()
  covegen,  \* the covegen.json file of the workspace
  settings,  \* the testGenerator settings of VS Code
  cachedConfig,  \* the cache of ConfigManager, for the workspace
  isProjectConfig,  \* _isProjectConfig of the configuration view
  saving,  \* the saves waiting for their write
  saves,  \* the number of save messages received
  saved  \* what the save that finished last did

covVars == <<reports, coverageData, tasks, jobs, changes, seen, stable, raced>>

treeVars == <<fs, source, shown, calls, edits, lastCoverage>>

genVars == <<activeTestGenerations, processes, requests>>

fnVars == <<fileName, excluded>>

labelVars == <<site, labels>>

lcovVars == <<lcovLines, lcovResult>>

watchVars == <<coveragePath, watchers, delivered>>

cfgVars == <<covegen, settings, cachedConfig, isProjectConfig, saving, saves, saved>>

extVars == <<genVars, fnVars, labelVars, lcovVars, watchVars, cfgVars>>

vars == <<covVars, treeVars, extVars>>

\* what the actions of one part leave alone
notGenVars == <<covVars, treeVars, fnVars, labelVars, lcovVars, watchVars, cfgVars>>
notFnVars == <<covVars, treeVars, genVars, labelVars, lcovVars, watchVars, cfgVars>>
notLabelVars == <<covVars, treeVars, genVars, fnVars, lcovVars, watchVars, cfgVars>>
notLcovVars == <<covVars, treeVars, genVars, fnVars, labelVars, watchVars, cfgVars>>
notWatchVars == <<covVars, treeVars, genVars, fnVars, labelVars, lcovVars, cfgVars>>
notCfgVars == <<covVars, treeVars, genVars, fnVars, labelVars, lcovVars, watchVars>>

-----------------------------------------------------------------------------
(* Bounds *)

\* refresh() calls made after construction
MaxRefreshes == 2
\* changes of the report files on disk
MaxFsChanges == 1
\* class / sourcefile / record elements in the three reports together
MaxEntries == 2

\* depth of the workspace directory below its root
MaxDepth == 2
\* entries in the workspace directory
MaxFsEntries == 2
\* changes of the workspace (directory entries, source text)
MaxEdits == 1
\* syntax nodes (classes, callables, object literals) in a source file
MaxNodes == 3
\* elements of the coverage reports while the tree is expanded
MaxViewEntries == 1

\* child processes spawned by generateTests, and invocations of generateTests
MaxGenerations == 2
MaxRequests == 3

\* pieces (words and separators) in a base name given to isTestFile
MaxNameLen == 5
\* arguments of a call
MaxArgs == 3
\* lines of an LCOV record between its SF and end_of_record lines
MaxLcovLines == 4

-----------------------------------------------------------------------------
(* The workspace directory *)

\* Entry names, in the order readdirSync lists them.
NameOrder ==
  <<"a.js", "a.test.js", "c.tsx", "dist", "lib", "node_modules", "node_modules.bak">>
Names == {NameOrder[i] : i \in 1..Len(NameOrder)}

\* The workspace folder, and the marker path of the top node.
RootPath == <<"ws">>
RootMarker == <<"testable_codes_root">>

\* Paths below the root, relative to it.
FsPaths == UNION {[1..k -> Names] : k \in 1..MaxDepth}

-----------------------------------------------------------------------------
(* Values *)

\* A JavaScript number as stored in the map, or the absence of an entry.
Num(n) == [k |-> "int", n |-> n]
NaN == [k |-> "NaN", n |-> 0]
Infinity == [k |-> "Infinity", n |-> 0]
Undefined == [k |-> "undefined", n |-> 0]

\* parseInt of an attribute or field text; an absent one is "undefined"
ParseInt(s) ==
  CASE s = "0" -> Num(0)
    [] s = "1" -> Num(1)
    [] s = "2" -> Num(2)
    [] s = "3" -> Num(3)
    [] s = "4" -> Num(4)
    [] s = "5" -> Num(5)
    [] OTHER -> NaN

\* parseInt(text) > 0 ; a comparison with NaN is false
Positive(s) == ParseInt(s).k = "int" /\ ParseInt(s).n > 0

\* Math.round(x) for x = 100 * c / t >= 0 : floor(x + 1/2)
RoundPercent(c, t) == (200 * c + t) \div (2 * t)

\* Math.round((hit / found) * 100) on JavaScript numbers (hit, found >= 0)
Percent(hit, found) ==
  IF hit.k # "int" \/ found.k # "int" THEN NaN
  ELSE IF found.n = 0 THEN (IF hit.n = 0 THEN NaN ELSE Infinity)
  ELSE Num(RoundPercent(hit.n, found.n))

-----------------------------------------------------------------------------
(* Report files *)

Formats == <<"X", "Y", "Z">>
FormatSet == {"X", "Y", "Z"}
XmlFormats == {"X", "Y"}

\* file names as the reports give them, relative to the workspace root
FileNames == {"a.js", "b.js"}

\* path.resolve(workspacePath, filename)
Resolve(f) ==
  CASE f = "a.js" -> "/ws/a.js"
    [] f = "b.js" -> "/ws/b.js"

Paths == {Resolve(f) : f \in FileNames}

\* The line elements of one class (X) or sourcefile (Y), given by the text of
\* the hit attribute (hits; ci), and the LF and LH texts of one record (Z).
\* X: one hits text per line; Y: one <<ci, cb>> pair per line; Z: <<LF, LH>>.
SampleData ==
  [X |-> {<<"1", "0">>},
   Y |-> {<< <<"1", "0">>, <<"0", "2">>, <<"x", "1">>, <<"0", "0">> >>},
   Z |-> {<<"4", "1">>, <<"0", "0">>}]

\* An element of a report: a class, sourcefile or record naming a file, or
\* one on which the reader throws (an XML element without attributes, an SF
\* line without a colon).  An element with no data has no line elements (X, Y)
\* or no LF line (Z).
Elem(f, d) == [bad |-> FALSE, file |-> f, data |-> d]
BadElem == [bad |-> TRUE, file |-> "", data |-> <<>>]
Elems(fmt) == {Elem(f, d) : f \in FileNames, d \in SampleData[fmt]} \cup {BadElem}

SeqsUpTo(S, n) == UNION {[1..k -> S] : k \in 0..n}

Absent == [kind |-> "absent", elems |-> <<>>]
Unparsable == [kind |-> "unparsable", elems |-> <<>>]
Report(es) == [kind |-> "ok", elems |-> es]

\* What a report file can hold.  Any text is an LCOV file; XML can fail to parse.
Contents(fmt) ==
  {Absent} \cup {Report(es) : es \in SeqsUpTo(Elems(fmt), MaxEntries)}
    \cup (IF fmt \in XmlFormats THEN {Unparsable} ELSE {})

Size(rs) == Len(rs.X.elems) + Len(rs.Y.elems) + Len(rs.Z.elems)

ReportStates ==
  {rs \in [X : Contents("X"), Y : Contents("Y"), Z : Contents("Z")] : Size(rs) <= MaxEntries}

-----------------------------------------------------------------------------
(* The LCOV parser *)

NoData == "<undefined>"

\* line.trim().split(':') : the parts of a line; parts[1] is undefined when
\* the line holds no colon
LineType(parts) == IF Len(parts) >= 1 THEN parts[1] ELSE ""
LineData(parts) == IF Len(parts) >= 2 THEN parts[2] ELSE NoData

NewRecord(f) == [file |-> f, hasLines |-> FALSE, found |-> Num(0), hit |-> Num(0)]

\* One iteration of the loop of parseLcov.  st.cur is the index in st.records
\* of currentRecord, 0 when it is null.
LcovStep(st, parts) ==
  LET type == LineType(parts)
      data == LineData(parts)
      c == st.cur
  IN  CASE type = "SF" ->
             [records |-> Append(st.records, NewRecord(data)), cur |-> Len(st.records) + 1]
        [] type = "LF" /\ c # 0 ->
             [st EXCEPT !.records[c].hasLines = TRUE, !.records[c].found = ParseInt(data)]
        [] type = "LH" /\ c # 0 /\ st.records[c].hasLines ->
             [st EXCEPT !.records[c].hit = ParseInt(data)]
        [] type = "end_of_record" -> [st EXCEPT !.cur = 0]
        [] OTHER -> st

RECURSIVE LcovLoop(_, _)
LcovLoop(st, lines) ==
  IF lines = <<>> THEN st ELSE LcovLoop(LcovStep(st, Head(lines)), Tail(lines))

parseLcov(lines) == LcovLoop([records |-> <<>>, cur |-> 0], lines).records

\* The text of an LCOV file holding the given records, one line per field.
RecordText(e) ==
  (IF e.bad THEN << <<"SF">>, <<"LF", "1">>, <<"LH", "1">> >>
   ELSE IF Len(e.data) = 0 THEN << <<"SF", e.file>> >>
   ELSE << <<"SF", e.file>>, <<"LF", e.data[1]>>, <<"LH", e.data[2]>> >>)
    \o << <<"end_of_record">> >>

RECURSIVE LcovText(_)
LcovText(es) == IF es = <<>> THEN <<>> ELSE RecordText(Head(es)) \o LcovText(Tail(es))

-----------------------------------------------------------------------------
(* The three report readers: the writes each makes to the map, in order,   *)
(* and whether an error was thrown inside its try block.                   *)

Outcome(ws, t) == [writes |-> ws, threw |-> t]

Count(data, P(_)) == Cardinality({i \in 1..Len(data) : P(data[i])})

CoberturaCovered(hits) == Positive(hits)
CoberturaCoverage(lines) ==
  Percent(Num(Count(lines, CoberturaCovered)), Num(Len(lines)))

JacocoCovered(line) == Positive(line[1]) \/ Positive(line[2])
JacocoCoverage(lines) ==
  Percent(Num(Count(lines, JacocoCovered)), Num(Len(lines)))

LcovCoverage(record) == Percent(record.hit, record.found)

RECURSIVE CoberturaClasses(_, _)
CoberturaClasses(es, ws) ==
  IF es = <<>> THEN Outcome(ws, FALSE)
  ELSE LET cls == Head(es)
       IN  IF cls.bad THEN Outcome(ws, TRUE)
           ELSE IF Len(cls.data) = 0 THEN CoberturaClasses(Tail(es), ws)
           ELSE CoberturaClasses(Tail(es),
                  Append(ws, <<Resolve(cls.file), CoberturaCoverage(cls.data)>>))

RECURSIVE JacocoSourceFiles(_, _)
JacocoSourceFiles(es, ws) ==
  IF es = <<>> THEN Outcome(ws, FALSE)
  ELSE LET sf == Head(es)
       IN  IF sf.bad THEN Outcome(ws, TRUE)
           ELSE IF Len(sf.data) = 0 THEN JacocoSourceFiles(Tail(es), ws)
           ELSE JacocoSourceFiles(Tail(es),
                  Append(ws, <<Resolve(sf.file), JacocoCoverage(sf.data)>>))

RECURSIVE LcovRecords(_, _)
LcovRecords(rs, ws) ==
  IF rs = <<>> THEN Outcome(ws, FALSE)
  ELSE LET record == Head(rs)
       IN  IF ~record.hasLines THEN LcovRecords(Tail(rs), ws)
           ELSE IF record.file = NoData THEN Outcome(ws, TRUE)
           ELSE LcovRecords(Tail(rs),
                  Append(ws, <<Resolve(record.file), LcovCoverage(record)>>))

updateFromCobertura(c) ==
  CASE c.kind = "absent" -> Outcome(<<>>, FALSE)
    [] c.kind = "unparsable" -> Outcome(<<>>, TRUE)
    [] OTHER -> CoberturaClasses(c.elems, <<>>)

updateFromJacoco(c) ==
  CASE c.kind = "absent" -> Outcome(<<>>, FALSE)
    [] c.kind = "unparsable" -> Outcome(<<>>, TRUE)
    [] OTHER -> JacocoSourceFiles(c.elems, <<>>)

updateFromLcov(c) ==
  IF c.kind = "absent" THEN Outcome(<<>>, FALSE)
  ELSE LcovRecords(parseLcov(LcovText(c.elems)), <<>>)

Process(fmt, c) ==
  CASE fmt = "X" -> updateFromCobertura(c)
    [] fmt = "Y" -> updateFromJacoco(c)
    [] fmt = "Z" -> updateFromLcov(c)

RejectsWhenThrown(fmt, threw) == threw

\* Whether the reader's promise rejects.  Each reader's body is one try block
\* whose catch logs and returns: an error thrown while reading never leaves it.
Rejects(fmt, threw) == FALSE

AwaitsFileRead(fmt, c) == c.kind # "absent"

\* Whether the reader suspends: the XML readers await the parser once the
\* file exists; the LCOV reader holds no await.
Awaits(fmt, c) == fmt \in XmlFormats /\ c.kind # "absent"

SettledByAny(pending) == TRUE

\* Whether Promise.all has settled: none of the readers it waits for is
\* still suspended.
Settled(pending) == pending = {}

RECURSIVE ApplyWrites(_, _)
ApplyWrites(map, ws) ==
  IF ws = <<>> THEN map
  ELSE ApplyWrites([map EXCEPT ![Head(ws)[1]] = Head(ws)[2]], Tail(ws))

-----------------------------------------------------------------------------
(* Calls of updateCoverageData *)

Ids == 0..MaxRefreshes

EmptyMap == [p \in Paths |-> Undefined]
NoReports == [X |-> Absent, Y |-> Absent, Z |-> Absent]

\* phase: idle (not called yet), running, done.  kind: "load" for the call the
\* constructor makes, "refresh" for a call made by refresh().  pending: the
\* readers suspended at their await.  read: the report contents the readers
\* got.  fired: the tree-change events refresh() fired for this call.
\* History fields: pre (the map when the call started), alone (no other call
\* was in flight with it), fresh (no report file changed since it started).
IdleTask ==
  [phase |-> "idle", kind |-> "refresh", pending |-> {}, read |-> NoReports,
   rejected |-> FALSE, fired |-> 0, pre |-> EmptyMap, alone |-> TRUE, fresh |-> TRUE]

DoneTask(t, n) ==
  [IdleTask EXCEPT !.phase = "done", !.kind = t.kind, !.rejected = t.rejected, !.fired = n]

Running(ts) == {i \in Ids : ts[i].phase = "running"}

NotSeen == [valid |-> FALSE, map |-> EmptyMap, during |-> {}]
Unset == [set |-> FALSE, map |-> EmptyMap]

\* The synchronous part of updateCoverageData: Promise.all's argument list
\* calls the three readers in order; a reader that does not suspend makes its
\* writes at once, one that suspends leaves a job behind.
RECURSIVE CallReaders(_, _, _, _)
CallReaders(id, rd, i, acc) ==
  IF i > Len(Formats) THEN acc
  ELSE LET fmt == Formats[i]
           out == Process(fmt, rd[fmt])
       IN  IF Awaits(fmt, rd[fmt])
           THEN CallReaders(id, rd, i + 1,
                  [acc EXCEPT !.pending = @ \cup {fmt}, !.queued = Append(@, <<id, fmt>>)])
           ELSE CallReaders(id, rd, i + 1,
                  [acc EXCEPT !.map = ApplyWrites(@, out.writes),
                              !.rejected = @ \/ Rejects(fmt, out.threw)])

\* The state after updateCoverageData was called with the reports rs on disk.
updateCoverageData(id, kind, rs, map, ts, q) ==
  LET acc == CallReaders(id, rs, 1,
               [map |-> map, pending |-> {}, queued |-> <<>>, rejected |-> FALSE])
      others == Running(ts)
      t == [phase |-> "running", kind |-> kind, pending |-> acc.pending, read |-> rs,
            rejected |-> acc.rejected, fired |-> 0, pre |-> map,
            alone |-> others = {}, fresh |-> TRUE]
  IN  [map |-> acc.map,
       tasks |-> [i \in Ids |->
                    IF i = id THEN t
                    ELSE IF i \in others THEN [ts[i] EXCEPT !.alone = FALSE]
                    ELSE ts[i]],
       jobs |-> q \o acc.queued \o
                  (IF Settled(acc.pending) THEN << <<id, "all">> >> ELSE <<>>)]

\* The constructor calls updateCoverageData and does not wait for it.
LoadFrom(rs) ==
  /\ reports = rs
  /\ LET s == updateCoverageData(0, "load", rs, EmptyMap,
                                 [i \in Ids |-> IdleTask], <<>>)
     IN  /\ coverageData = s.map
         /\ tasks = s.tasks
         /\ jobs = s.jobs
  /\ changes = 0
  /\ seen = NotSeen
  /\ stable = Unset
  /\ raced = {}

\* The generation registry before the first generateTests invocation.
GenIds == 1..MaxGenerations
NoGeneration == 0
NoProcess == [path |-> "", state |-> "none", progress |-> "none"]

GenAtRest ==
  /\ activeTestGenerations = [p \in Paths |-> NoGeneration]
  /\ processes = [g \in GenIds |-> NoProcess]
  /\ requests = {}

FnAtRest ==
  /\ fileName = <<>>
  /\ excluded = [called |-> FALSE, value |-> FALSE]

\* no arrow function looked at, no label computed
NoSite == [parent |-> "", grand |-> "", name |-> "", args |-> <<>>, at |-> 0]
NoLabel == [called |-> FALSE, displayed |-> <<>>, listed |-> <<>>]

LabelAtRest ==
  /\ site = NoSite
  /\ labels = NoLabel

\* updateFromLcov has not run
NotRead == [read |-> FALSE, map |-> EmptyMap]

LcovAtRest ==
  /\ lcovLines = <<>>
  /\ lcovResult = NotRead

\* The coverage file watcher that activate creates: its glob pattern and the
\* kinds of event that have a handler.
EventKinds == {"create", "change", "delete"}
DefaultCoveragePath == <<"coverage", "coverage.xml">>
Pattern(path) == <<"**">> \o path
Watcher(path, handled) == [pattern |-> Pattern(path), handlers |-> handled]
NoEvent == [file |-> <<>>, kind |-> "none", setting |-> <<>>, changed |-> FALSE,
            refreshed |-> FALSE]

WatchAtRest ==
  /\ coveragePath = DefaultCoveragePath
  /\ watchers = <<Watcher(DefaultCoveragePath, EventKinds)>>
  /\ delivered = NoEvent

\* The configuration before the configuration view is opened.  A missing
\* optional field reads as undefined.
NoApiBase == "undefined"
DEFAULT_CONFIG == [coverageThreshold |-> 95, apiBase |-> NoApiBase]
EmptyObject == [k \in {} |-> ""]
NoFile == [exists |-> FALSE, json |-> EmptyObject]
NoConfig == [has |-> FALSE, value |-> DEFAULT_CONFIG]
NoSave == [n |-> 0, mode |-> "none", config |-> DEFAULT_CONFIG, written |-> FALSE,
           webview |-> "none", window |-> "none", before |-> NoConfig, after |-> NoConfig]

CfgAtRest ==
  /\ covegen = NoFile
  /\ settings = DEFAULT_CONFIG
  /\ cachedConfig = NoConfig
  /\ isProjectConfig = FALSE
  /\ saving = {}
  /\ saves = 0
  /\ saved = NoSave

ExtAtRest ==
  /\ GenAtRest
  /\ FnAtRest
  /\ LabelAtRest
  /\ LcovAtRest
  /\ WatchAtRest
  /\ CfgAtRest

\* The tree view before its first getChildren call, in an empty workspace.
EmptyFolder == [p \in {} |-> "none"]
NoSource == <<>>

TreeAtRest ==
  /\ fs = EmptyFolder
  /\ source = NoSource
  /\ shown = {}
  /\ calls = {}
  /\ edits = 0
  /\ lastCoverage = EmptyMap

Init ==
  /\ \E rs \in ReportStates : LoadFrom(rs)
  /\ TreeAtRest
  /\ ExtAtRest

\* The refresh() calls in flight that read the report files before they
\* last changed.
Overtaken(ts) == {j \in Running(ts) : ts[j].kind = "refresh" /\ ~ts[j].fresh}

\* refresh(): await this.updateCoverageData(); then fire the tree-change event
StartRefresh(id) ==
  /\ tasks[id].phase = "idle"
  /\ \A j \in Ids : j < id => tasks[j].phase # "idle"
  /\ LET s == updateCoverageData(id, "refresh", reports, coverageData, tasks, jobs)
     IN  /\ coverageData' = s.map
         /\ tasks' = s.tasks
         /\ jobs' = s.jobs
  /\ seen' = NotSeen
  /\ raced' = IF Overtaken(tasks) # {} THEN raced \cup {id} ELSE raced
  /\ UNCHANGED <<reports, changes, stable>>

\* A refresh() call made by a handler that touches nothing else.
Refresh(id) ==
  /\ StartRefresh(id)
  /\ UNCHANGED treeVars
  /\ UNCHANGED extVars

\* The job that resumes a reader after its await: the rest of its try block.
Resume(id, fmt) ==
  /\ jobs # <<>>
  /\ Head(jobs) = <<id, fmt>>
  /\ LET out == Process(fmt, tasks[id].read[fmt])
         left == tasks[id].pending \ {fmt}
     IN  /\ coverageData' = ApplyWrites(coverageData, out.writes)
         /\ tasks' = [tasks EXCEPT ![id].pending = left,
                                   ![id].rejected = @ \/ Rejects(fmt, out.threw)]
         /\ jobs' = Tail(jobs) \o (IF Settled(left) THEN << <<id, "all">> >> ELSE <<>>)
  /\ seen' = NotSeen
  /\ UNCHANGED <<reports, changes, stable, raced>>
  /\ UNCHANGED treeVars
  /\ UNCHANGED extVars

\* The call whose completion is the next job to run.  Complete leaves the map
\* as it is: the map in such a state is the map the caller finds when its
\* await returns.
Completing(id) == jobs # <<>> /\ Head(jobs) = <<id, "all">>

\* The job that runs once Promise.all has settled: updateCoverageData returns,
\* and refresh(), when it is the caller and nothing was thrown, fires the event.
Complete(id) ==
  /\ Completing(id)
  /\ LET t == tasks[id]
         n == IF t.kind = "refresh" /\ ~t.rejected THEN t.fired + 1 ELSE t.fired
     IN  /\ tasks' = [tasks EXCEPT ![id] = DoneTask(t, n)]
         /\ stable' = IF t.kind = "refresh" /\ t.fresh /\ ~stable.set
                      THEN [set |-> TRUE, map |-> coverageData]
                      ELSE stable
  /\ jobs' = Tail(jobs)
  /\ seen' = NotSeen
  /\ UNCHANGED <<reports, coverageData, changes, raced>>
  /\ UNCHANGED treeVars
  /\ UNCHANGED extVars

\* Another process writes, replaces or deletes a report file.
WriteReport(fmt, c) ==
  /\ changes < MaxFsChanges
  /\ c # reports[fmt]
  /\ Size([reports EXCEPT ![fmt] = c]) <= MaxEntries
  /\ reports' = [reports EXCEPT ![fmt] = c]
  /\ changes' = changes + 1
  /\ tasks' = [i \in Ids |-> IF i \in Running(tasks) THEN [tasks[i] EXCEPT !.fresh = FALSE]
                             ELSE tasks[i]]
  /\ stable' = Unset
  /\ raced' = {}
  /\ seen' = NotSeen
  /\ UNCHANGED <<coverageData, jobs>>
  /\ UNCHANGED treeVars
  /\ UNCHANGED extVars

\* A synchronous reader of the map: getFileCoverage, or the File nodes that a
\* getChildren call constructs.
ReadCoverage ==
  /\ ~seen.valid
  /\ seen' = [valid |-> TRUE, map |-> coverageData, during |-> Running(tasks)]
  /\ UNCHANGED <<reports, coverageData, tasks, jobs, changes, stable, raced>>
  /\ UNCHANGED treeVars
  /\ UNCHANGED extVars

\* The extension alone: the report files stay as they were at activation.
Next ==
  \/ \E id \in Ids \ {0} : Refresh(id)
  \/ \E id \in Ids, fmt \in FormatSet : Resume(id, fmt)
  \/ \E id \in Ids : Complete(id)
  \/ ReadCoverage

Spec == Init /\ [][Next]_vars

\* The jobs of the queue: the event loop runs the job at its head whenever
\* there is one.
RunJob ==
  \/ \E id \in Ids, fmt \in FormatSet : Resume(id, fmt)
  \/ \E id \in Ids : Complete(id)

\* The extension alone, with an event loop that keeps running queued jobs.
SpecLive == Init /\ [][Next]_vars /\ WF_vars(RunJob)

\* The extension and the processes that write the report files.
NextFs ==
  \/ Next
  \/ \E fmt \in FormatSet : \E c \in Contents(fmt) : WriteReport(fmt, c)

SpecFs == Init /\ [][NextFs]_vars

-----------------------------------------------------------------------------
(* What one call contributes *)

\* The paths a reader writes and the value it leaves at a path.
Written(fmt, c) ==
  LET ws == Process(fmt, c).writes IN {ws[i][1] : i \in 1..Len(ws)}

ValueOf(fmt, c, p) == ApplyWrites(EmptyMap, Process(fmt, c).writes)[p]

Malformed(fmt, c) == Process(fmt, c).threw
WellFormed(fmt, c) == c.kind = "ok" /\ ~Malformed(fmt, c)

\* The map a call started from, with the writes of its readers other than
\* those in skip: first the LCOV reader's, made during the call itself, then
\* those of the XML readers.
WithContributions(t, skip) ==
  LET z == IF "Z" \in skip THEN t.pre
           ELSE ApplyWrites(t.pre, Process("Z", t.read.Z).writes)
      x == IF "X" \in skip THEN z ELSE ApplyWrites(z, Process("X", t.read.X).writes)
  IN  IF "Y" \in skip THEN x ELSE ApplyWrites(x, Process("Y", t.read.Y).writes)

-----------------------------------------------------------------------------
(* Claims on the coverage map *)

\* C1: a reader that runs while one call of updateCoverageData is in flight
\* sees the map as it was before the call or the map with the contributions
\* of all the call's readers, never a map with only some of them.
C1_PublishedAsAWhole ==
  \A id \in Ids :
    (seen.valid /\ seen.during = {id} /\ tasks[id].alone)
      => seen.map \in {tasks[id].pre, WithContributions(tasks[id], {})}

\* C2: every entry of the map is an integer from 0 to 100.
C2_EntriesArePercentages ==
  \A p \in Paths :
    coverageData[p] = Undefined
      \/ (coverageData[p].k = "int" /\ coverageData[p].n \in 0..100)

\* C3: when a call that found none of the three report files completes, it
\* has not rejected and the map holds no entry.
C3_NoReportsNoEntries ==
  \A id \in Ids :
    (Completing(id) /\ tasks[id].read = NoReports)
      => (~tasks[id].rejected /\ coverageData = EmptyMap)

\* A path that the X and the Z report of a call give different percentages
\* and that the Y report does not name.
XZConflict(t, p) ==
  /\ p \in Written("X", t.read.X) \cap Written("Z", t.read.Z)
  /\ p \notin Written("Y", t.read.Y)
  /\ ValueOf("X", t.read.X, p) # ValueOf("Z", t.read.Z, p)

C6_OneBadReportBlocksNothing ==
  \A id \in Ids :
    /\ ~tasks[id].rejected
    /\ Completing(id) =>
         \A fmt \in FormatSet :
           WellFormed(fmt, tasks[id].read[fmt]) =>
             \A p \in Written(fmt, tasks[id].read[fmt]) :
               /\ coverageData[p] # Undefined
               /\ tasks[id].alone =>
                    \E g \in FormatSet :
                      /\ p \in Written(g, tasks[id].read[g])
                      /\ coverageData[p] = ValueOf(g, tasks[id].read[g], p)

C6_Witness ==
  \E id \in Ids \ {0}, bad \in FormatSet, fmt \in FormatSet, p \in Paths :
    /\ Completing(id) /\ ~tasks[id].rejected
    /\ tasks[id].read[bad].kind # "absent" /\ Malformed(bad, tasks[id].read[bad])
    /\ WellFormed(fmt, tasks[id].read[fmt])
    /\ p \in Written(fmt, tasks[id].read[fmt])
    /\ coverageData[p] = ValueOf(fmt, tasks[id].read[fmt], p)

\* C7: when a call that ran alone completes, the map is what it would be had
\* the readers that threw written nothing.
C7_MalformedContributesNothing ==
  \A id \in Ids :
    (Completing(id) /\ tasks[id].alone)
      => coverageData =
           WithContributions(tasks[id],
             {fmt \in FormatSet : Malformed(fmt, tasks[id].read[fmt])})

-----------------------------------------------------------------------------
(* The directory walk *)

\* Kinds of entry: a directory, a regular file, a symbolic link whose target
\* is gone (readdirSync lists it, statSync throws ENOENT), a directory without
\* read permission (statSync succeeds, readdirSync throws EACCES).
DirKinds == {"dir", "locked"}
KindsOf(name) ==
  CASE name \in {"a.js", "a.test.js", "c.tsx"} -> {"file"}
    [] name = "dist" -> {"dir"}
    [] name = "lib" -> {"dir", "locked", "dangling"}
    [] name = "node_modules" -> {"dir", "dangling"}
    [] name = "node_modules.bak" -> {"dir"}

Parent(rel) == SubSeq(rel, 1, Len(rel) - 1)

\* The entries of f; each of them is inside a directory of f.
Entries(f) == DOMAIN f
ParentClosed(f) ==
  \A p \in Entries(f) :
    Len(p) > 1 => (Parent(p) \in Entries(f) /\ f[Parent(p)] \in DirKinds)

\* A place for one more entry.
CanAdd(f, p) ==
  /\ p \notin Entries(f)
  /\ Len(p) = 1 \/ (Parent(p) \in Entries(f) /\ f[Parent(p)] = "dir")

\* f with the entry p of the given kind, or without it when kind is "none"
WithEntry(f, p, kind) ==
  [q \in IF kind = "none" THEN Entries(f) \ {p} ELSE Entries(f) \cup {p} |->
     IF q = p THEN kind ELSE f[q]]

RECURSIVE FsOfSize(_)
FsOfSize(k) ==
  IF k = 0 THEN {EmptyFolder}
  ELSE UNION {UNION {{WithEntry(f, p, kind) : kind \in KindsOf(p[Len(p)])} :
                       p \in {q \in FsPaths : CanAdd(f, q)}} :
                f \in FsOfSize(k - 1)}

FsStates == UNION {FsOfSize(k) : k \in 0..MaxFsEntries}

\* The path below the root of an absolute path.
Rel(abs) == Tail(abs)
InWorkspace(abs) == Len(abs) > 1 /\ Head(abs) = Head(RootPath) /\ Rel(abs) \in FsPaths

KindAt(f, abs) ==
  IF abs = RootPath THEN "dir"
  ELSE IF InWorkspace(abs) /\ Rel(abs) \in Entries(f) THEN f[Rel(abs)]
  ELSE "none"

\* Every directory on the way to abs can be searched.
RECURSIVE Reachable(_, _)
Reachable(f, abs) ==
  \/ abs = RootPath
  \/ /\ InWorkspace(abs)
     /\ KindAt(f, Parent(abs)) = "dir"
     /\ Reachable(f, Parent(abs))

\* fs.existsSync: false for a missing entry, a dangling link, an error
existsSync(f, abs) == Reachable(f, abs) /\ KindAt(f, abs) \in {"dir", "locked", "file"}

\* fs.readdirSync of a directory that can be read: the names, sorted
readdirSync(f, abs) ==
  IF Len(abs) > MaxDepth THEN <<>>
  ELSE SelectSeq(NameOrder, LAMBDA n : KindAt(f, Append(abs, n)) # "none")

\* dirPath.includes('node_modules')
IncludesNodeModules(abs) ==
  \E i \in 1..Len(abs) : abs[i] \in {"node_modules", "node_modules.bak"}

\* the '.test.' pattern of testPatterns, in the base name
isTestFile(abs) == abs[Len(abs)] = "a.test.js"

\* path.extname
extname(name) ==
  CASE name \in {"a.js", "a.test.js"} -> ".js"
    [] name = "c.tsx" -> ".tsx"
    [] name = "node_modules.bak" -> ".bak"
    [] OTHER -> ""

\* ext === '.js' || ext === '.ts' || ext === '.jsx' || ext === '.tsx'
isJsTs(ext) == ext \in {".js", ".ts", ".jsx", ".tsx"}

\* The rules of the workspace's .gitignore, read by the constructor.
GitIgnore == {"dist"}
isIgnored(abs) == \E i \in 2..Len(abs) : abs[i] \in GitIgnore

\* The key of a file in the coverage map: path.normalize(fullPath)
CoverageKey(abs) == IF abs = <<"ws", "a.js">> THEN "/ws/a.js" ELSE ""

getFileCoverage(key) == IF key \in Paths THEN coverageData[key] ELSE Undefined

\* previousCoverage !== coverage, and coverage > previousCoverage, on numbers
\* that can be NaN or Infinity
StrictlyEqual(a, b) == a.k # "NaN" /\ a = b
Greater(a, b) ==
  \/ a.k = "int" /\ b.k = "int" /\ a.n > b.n
  \/ a.k = "Infinity" /\ b.k = "int"

\* What a File item displays: description and tooltip are made of the
\* percentage and, when it differs from the one last displayed for the
\* path, of the direction of the change.
NoDescription == [coverage |-> Undefined, trend |-> "none"]

Describe(abs) ==
  LET coverage == getFileCoverage(CoverageKey(abs))
      previousCoverage ==
        IF CoverageKey(abs) \in Paths THEN lastCoverage[CoverageKey(abs)] ELSE Undefined
      coverageChanged ==
        previousCoverage # Undefined /\ ~StrictlyEqual(previousCoverage, coverage)
  IN  IF coverage = Undefined THEN NoDescription
      ELSE [coverage |-> coverage,
            trend |-> IF ~coverageChanged THEN "none"
                      ELSE IF Greater(coverage, previousCoverage) THEN "up"
                      ELSE "down"]

\* new FileTreeItem(label, type, fullPath, collapsibleState, command, node):
\* pos stands for the start position of the node, 0 when there is none.
FileTreeItem(label, type, fullPath, state, pos) ==
  [label |-> label, type |-> type, fullPath |-> fullPath,
   collapsibleState |-> state, pos |-> pos,
   description |-> IF type = "File" THEN Describe(fullPath) ELSE NoDescription]

\* What a call returns, or that it threw.
\* made: the paths of the File items constructed on the way.
Returned(items, made) == [threw |-> FALSE, items |-> items, made |-> made]
Thrown(made) == [threw |-> TRUE, items |-> <<>>, made |-> made]
Return(items) == Returned(items, {})
Throw == Thrown({})

\* the entries left out for their name alone, before anything is
\* read of them: entry === 'node_modules' || this.isTestFile(entry)
SkippedAsTestFile(entry) == isTestFile(<<entry>>)
SkippedByName(entry) == entry = "node_modules" \/ isTestFile(<<entry>>)

RECURSIVE getFileItems(_, _)
RECURSIVE ForEachEntry(_, _, _, _, _)

\* the callback of entries.forEach, entry after entry
ForEachEntry(f, dirPath, entries, items, made) ==
  IF entries = <<>> THEN Returned(items, made)
  ELSE
    LET entry == Head(entries)
        fullPath == Append(dirPath, entry)
        kind == KindAt(f, fullPath)
    IN  IF SkippedByName(entry)
        THEN ForEachEntry(f, dirPath, Tail(entries), items, made)
        ELSE IF isIgnored(fullPath)
        THEN ForEachEntry(f, dirPath, Tail(entries), items, made)
        ELSE IF kind = "dangling"
        THEN Thrown(made)
        ELSE IF kind \in DirKinds
        THEN LET subItems == getFileItems(f, fullPath)
             IN  IF subItems.threw THEN Thrown(made \cup subItems.made)
                 ELSE IF Len(subItems.items) > 0
                 THEN ForEachEntry(f, dirPath, Tail(entries),
                        Append(items, FileTreeItem(entry, "Folder", fullPath, "Collapsed", 0)),
                        made \cup subItems.made)
                 ELSE ForEachEntry(f, dirPath, Tail(entries), items, made \cup subItems.made)
        ELSE IF isJsTs(extname(entry)) /\ ~isTestFile(fullPath)
        THEN ForEachEntry(f, dirPath, Tail(entries),
               Append(items, FileTreeItem(entry, "File", fullPath, "Collapsed", 0)),
               made \cup {fullPath})
        ELSE ForEachEntry(f, dirPath, Tail(entries), items, made)

getFileItems(f, dirPath) ==
  IF ~existsSync(f, dirPath) \/ IncludesNodeModules(dirPath) THEN Return(<<>>)
  ELSE IF KindAt(f, dirPath) # "dir" THEN Throw
  ELSE ForEachEntry(f, dirPath, readdirSync(f, dirPath), <<>>, {})

-----
(* Syntax trees *)

\* The nodes of a tree, in document order (the order of traverse and of
\* descendantsOfType); node 0 is the program.  Only classes, callables and
\* object literals are kept; parent is the nearest kept ancestor.  A node's
\* index stands for its start position.
NodeTypes ==
  {"class_declaration", "class", "method_definition", "function_declaration",
   "arrow_function", "object"}
\* The name field of a class declaration; "" when the node has none.
ClassNames == {"A", "B", ""}

\* Where the grammar allows a statement, and where an expression: the body of
\* a callable, the program or a class's static block; also a class field's
\* initializer and an object literal's property value.
StatementParents ==
  {"program", "function_declaration", "method_definition", "arrow_function",
   "class_declaration", "class"}
ExpressionParents == StatementParents \cup {"object"}

ParentTypes(type) ==
  CASE type = "method_definition" -> {"class_declaration", "class", "object"}
    [] type \in {"function_declaration", "class_declaration"} -> StatementParents
    [] OTHER -> ExpressionParents

NodeNames(type) ==
  CASE type = "class_declaration" -> ClassNames
    [] type \in {"method_definition", "function_declaration"} -> {"m"}
    [] OTHER -> {""}

TypeOf(ast, i) == IF i = 0 THEN "program" ELSE ast[i].type

RECURSIVE Ancestors(_, _)
Ancestors(ast, i) ==
  IF i = 0 \/ ast[i].parent = 0 THEN {}
  ELSE {ast[i].parent} \cup Ancestors(ast, ast[i].parent)

\* The nodes still open after the last node of ast.
OpenNodes(ast) ==
  IF ast = <<>> THEN {0} ELSE {0, Len(ast)} \cup Ancestors(ast, Len(ast))

NextNodes(ast) ==
  UNION {UNION {{[type |-> t, parent |-> p, name |-> n] : n \in NodeNames(t)} :
                  p \in {q \in OpenNodes(ast) : TypeOf(ast, q) \in ParentTypes(t)}} :
           t \in NodeTypes}

RECURSIVE AstsOfSize(_)
AstsOfSize(k) ==
  IF k = 0 THEN {<<>>}
  ELSE UNION {{Append(a, n) : n \in NextNodes(a)} : a \in AstsOfSize(k - 1)}

\* The syntax trees of at most n nodes.
Sources(n) == UNION {AstsOfSize(k) : k \in 0..n}

\* node.descendantsOfType(type), for node i of ast
descendantsOfType(ast, i, type) ==
  SelectSeq([j \in 1..Len(ast) |-> j],
            LAMBDA j : ast[j].type = type /\ (i = 0 \/ i \in Ancestors(ast, j)))

findMethods(ast) ==
  SelectSeq([j \in 1..Len(ast) |-> j],
            LAMBDA j : ast[j].type \in
                         {"function_declaration", "method_definition", "arrow_function"})

isMethodInClass(ast, j) ==
  \E a \in Ancestors(ast, j) : ast[a].type = "class_declaration"

\* fs.readFileSync(filePath, 'utf8') returns
Readable(f, filePath) == existsSync(f, filePath) /\ KindAt(f, filePath) = "file"

\* The parsers the constructor sets up, and the one a file is parsed with:
\* ext === '.ts' ? this.tsParser : this.jsParser
LanguageOf(parser) ==
  CASE parser = "jsParser" -> "JavaScript"
    [] parser = "tsParser" -> "TypeScript"
    [] OTHER -> "none"

ParserFor(filePath) ==
  IF extname(filePath[Len(filePath)]) = ".ts" THEN "tsParser" ELSE "jsParser"

\* classGroups, a Map: its keys in insertion order, and the value of a key.
\* classGroups.set(className, []) starts the list of a name again.
ClassNameOf(ast, c) == IF ast[c].name = "" THEN "Anonymous Class" ELSE ast[c].name

RECURSIVE Keys(_, _, _)
Keys(ast, classNodes, acc) ==
  IF classNodes = <<>> THEN acc
  ELSE LET className == ClassNameOf(ast, Head(classNodes))
       IN  Keys(ast, Tail(classNodes),
                IF \E i \in 1..Len(acc) : acc[i] = className THEN acc
                ELSE Append(acc, className))

LastNamed(ast, classNodes, className) ==
  LET named == SelectSeq(classNodes, LAMBDA c : ClassNameOf(ast, c) = className)
  IN  named[Len(named)]

GroupMethods(ast, classNodes, className) ==
  descendantsOfType(ast, LastNamed(ast, classNodes, className), "method_definition")

RECURSIVE ClassItems(_, _, _, _)
ClassItems(ast, classNodes, keys, filePath) ==
  IF keys = <<>> THEN <<>>
  ELSE (IF Len(GroupMethods(ast, classNodes, Head(keys))) > 0
        THEN <<FileTreeItem(Head(keys), "Class", filePath, "Expanded", 0)>>
        ELSE <<>>)
       \o ClassItems(ast, classNodes, Tail(keys), filePath)

getClassGroups(f, ast, filePath) ==
  IF ~Readable(f, filePath) THEN Return(<<>>)
  ELSE
    LET classNodes == descendantsOfType(ast, 0, "class_declaration")
        defaultGroup == SelectSeq(findMethods(ast), LAMBDA j : ~isMethodInClass(ast, j))
    IN  Return(ClassItems(ast, classNodes, Keys(ast, classNodes, <<>>), filePath)
               \o (IF Len(defaultGroup) > 0
                   THEN <<FileTreeItem("Global Scope", "Class", filePath, "Expanded", 0)>>
                   ELSE <<>>))

\* the label createMethodTreeItem gives: the name field of a function or a
\* method; an arrow function is labelled from a declarator or an assignment,
\* which this model does not keep
MethodLabel(ast, j) ==
  IF ast[j].type \in {"function_declaration", "method_definition"} THEN ast[j].name
  ELSE ""

createMethodAsClass(ast, j, filePath) ==
  FileTreeItem(MethodLabel(ast, j), "Class", filePath, "Expanded", j)

createMethodTreeItem(ast, j, filePath) ==
  FileTreeItem(MethodLabel(ast, j), "Method", filePath, "None", j)

getMethodsForClass(f, ast, filePath, className) ==
  IF ~Readable(f, filePath) THEN Throw
  ELSE
    LET found == SelectSeq(descendantsOfType(ast, 0, "class_declaration"),
                           LAMBDA c : ast[c].name = className)
        methods ==
          IF className = "Global Scope"
          THEN SelectSeq(findMethods(ast), LAMBDA j : ~isMethodInClass(ast, j))
          ELSE IF found # <<>>
          THEN descendantsOfType(ast, Head(found), "method_definition")
          ELSE <<>>
    IN  Return([k \in 1..Len(methods) |-> createMethodTreeItem(ast, methods[k], filePath)])

-----------------------------------------------------------------------------
(* The tree view *)

\* getChildren() without an element
NoElement == FileTreeItem("", "undefined", <<>>, "None", 0)

RootItem == FileTreeItem("TESTABLE CODES", "Folder", RootMarker, "Expanded", 0)

getProjectName(rootPath) == rootPath[Len(rootPath)]

getChildren(f, ast, element) ==
  IF element = NoElement THEN Return(<<RootItem>>)
  ELSE IF element.fullPath = RootMarker
  THEN Return(<<FileTreeItem(getProjectName(RootPath), "Folder", RootPath, "Expanded", 0)>>)
  ELSE IF element.fullPath = RootPath THEN getFileItems(f, RootPath)
  ELSE IF element.type = "Folder" THEN getFileItems(f, element.fullPath)
  ELSE IF element.type = "File" THEN getClassGroups(f, ast, element.fullPath)
  ELSE IF element.type = "Class"
  THEN getMethodsForClass(f, ast, element.fullPath, element.label)
  ELSE Return(<<>>)

Range(seq) == {seq[i] : i \in 1..Len(seq)}

\* VS Code expands the top of the tree, or a node it was given earlier.
GetChildren(element) ==
  /\ element \in shown \cup {NoElement}
  /\ LET r == getChildren(fs, source, element)
         parser == IF element.type \in {"File", "Class"} /\ Readable(fs, element.fullPath)
                   THEN ParserFor(element.fullPath)
                   ELSE "none"
         call == [element |-> element, threw |-> r.threw, items |-> r.items,
                  parser |-> parser, coverage |-> coverageData]
     IN  /\ call \notin calls
         /\ calls' = calls \cup {call}
         /\ shown' = shown \cup Range(r.items)
         /\ lastCoverage' =
              [k \in Paths |->
                 IF getFileCoverage(k) # Undefined /\ \E abs \in r.made : CoverageKey(abs) = k
                 THEN getFileCoverage(k)
                 ELSE lastCoverage[k]]
  /\ UNCHANGED <<fs, source, edits>>
  /\ UNCHANGED covVars
  /\ UNCHANGED extVars

\* An entry of the workspace is replaced or removed.
FsEvent(p, kind) ==
  /\ edits < MaxEdits
  /\ p \in Entries(fs)
  /\ fs[p] # kind
  /\ LET f == WithEntry(fs, p, kind)
     IN  /\ ParentClosed(f)
         /\ Cardinality(Entries(f)) <= MaxFsEntries
         /\ fs' = f
  /\ edits' = edits + 1
  /\ calls' = {}
  /\ UNCHANGED <<source, shown, lastCoverage>>
  /\ UNCHANGED covVars
  /\ UNCHANGED extVars

\* The source text is edited: a node is added at its end, or the last one removed.
Edited(ast) ==
  (IF ast = <<>> THEN {} ELSE {SubSeq(ast, 1, Len(ast) - 1)})
  \cup (IF Len(ast) < MaxNodes THEN {Append(ast, n) : n \in NextNodes(ast)} ELSE {})

EditSource(ast) ==
  /\ edits < MaxEdits
  /\ ast \in Edited(source)
  /\ source' = ast
  /\ edits' = edits + 1
  /\ calls' = {}
  /\ UNCHANGED <<fs, shown, lastCoverage>>
  /\ UNCHANGED covVars
  /\ UNCHANGED extVars

\* The coverage map of a workspace without reports, left alone.
CoverageAtRest == LoadFrom(NoReports)

\* One function in the source files.
SampleSource == <<[type |-> "function_declaration", parent |-> 0, name |-> "m"]>>

InitDir ==
  /\ CoverageAtRest
  /\ fs \in FsStates
  /\ source = SampleSource
  /\ shown = {}
  /\ calls = {}
  /\ edits = 0
  /\ lastCoverage = EmptyMap
  /\ ExtAtRest

NextDir ==
  \/ \E element \in shown \cup {NoElement} : GetChildren(element)
  \/ \E p \in FsPaths : \E kind \in KindsOf(p[Len(p)]) \cup {"none"} : FsEvent(p, kind)

\* The directory walk over a changing workspace directory.
SpecDir == InitDir /\ [][NextDir]_vars

\* A workspace of one source file.
OneFile == WithEntry(EmptyFolder, <<"a.js">>, "file")

InitSym ==
  /\ CoverageAtRest
  /\ fs = OneFile
  /\ source \in Sources(MaxNodes)
  /\ shown = {}
  /\ calls = {}
  /\ edits = 0
  /\ lastCoverage = EmptyMap
  /\ ExtAtRest

NextSym ==
  \/ \E element \in shown \cup {NoElement} : GetChildren(element)
  \/ \E ast \in Edited(source) : EditSource(ast)
  \/ \E p \in FsPaths : FsEvent(p, "none")

\* The symbol extraction over one source file that is edited or removed.
SpecSym == InitSym /\ [][NextSym]_vars

\* The report files of the workspace whose tree is expanded.
ViewReports == {rs \in ReportStates : Size(rs) <= MaxViewEntries}

InitView ==
  /\ \E rs \in ViewReports : LoadFrom(rs)
  /\ fs = OneFile
  /\ source = SampleSource
  /\ shown = {}
  /\ calls = {}
  /\ edits = 0
  /\ lastCoverage = EmptyMap
  /\ ExtAtRest

NextView ==
  \/ \E element \in shown \cup {NoElement} : GetChildren(element)
  \/ \E id \in Ids, fmt \in FormatSet : Resume(id, fmt)
  \/ \E id \in Ids : Complete(id)

\* The tree of one source file, expanded while the coverage reports are loaded.
SpecView == InitView /\ [][NextView]_vars

-----------------------------------------------------------------------------
(* Claims about the tree *)

CallOf(element) == CHOOSE c \in calls : c.element = element
Called(element) == \E c \in calls : c.element = element

\* C8: a filesystem error while a directory is listed or one of its entries
\* is examined stays inside the expansion: getChildren of a Project or
\* Folder node returns a list and never throws.
C8_DirectoryErrorsRecovered ==
  \A c \in calls :
    (c.element.type = "Folder" /\ c.element.fullPath # RootMarker) => ~c.threw

\* C9: when the source file cannot be read, getChildren of its File node and
\* getChildren of each of its ClassGroup nodes return the empty list and do
\* not throw, also when the file was readable when the node was created.
C9_UnreadableFileYieldsNothing ==
  \A c \in calls :
    (c.element.type \in {"File", "Class"} /\ ~Readable(fs, c.element.fullPath))
      => (~c.threw /\ c.items = <<>>)

\* The number of callables: function declarations, method definitions and
\* arrow functions, each at a position of its own.
CallablePositions(ast) == Len(findMethods(ast))

RECURSIVE TotalCallables(_)
TotalCallables(groups) ==
  IF groups = <<>> THEN 0
  ELSE Len(CallOf(Head(groups)).items) + TotalCallables(Tail(groups))

\* C10: once a readable file's File node and every ClassGroup node returned
\* for it have been expanded, the Callable nodes returned number exactly the
\* callables of the file (function declarations, method definitions, arrow
\* functions anywhere, inside class bodies too).
C10_ExtractionComplete ==
  \A c \in calls :
    (/\ c.element.type = "File"
     /\ Readable(fs, c.element.fullPath)
     /\ \A g \in Range(c.items) : Called(g))
      => TotalCallables(c.items) = CallablePositions(source)

\* The expansions of a readable file's File node made since the last change.
FileCalls == {c \in calls : c.element.type = "File" /\ Readable(fs, c.element.fullPath)}

\* The Callable nodes that the expanded ClassGroup nodes of a File call gave,
\* each with the group that gave it.
Reported(c) ==
  UNION {{[group |-> g, item |-> m] : m \in Range(CallOf(g).items)} :
           g \in {h \in Range(c.items) : Called(h)}}

\* C11: across the ClassGroup nodes returned for one file, no two Callable
\* nodes have the same source range: no callable is reported by two groups.
C11_NoCallableTwice ==
  \A c \in FileCalls :
    \A r1, r2 \in Reported(c) :
      r1.item.pos = r2.item.pos => r1.group = r2.group

\* A method definition of a class body (of a declaration or an expression),
\* and a function declared outside every class.
ClassMethod(ast, j) ==
  /\ ast[j].type = "method_definition"
  /\ TypeOf(ast, ast[j].parent) \in {"class_declaration", "class"}

OutsideEveryClass(ast, j) ==
  /\ ast[j].type = "function_declaration"
  /\ \A a \in Ancestors(ast, j) : ast[a].type \notin {"class_declaration", "class"}

\* C12: "Global Scope" never returns a method definition of a class
\* (declaration or expression), and the group of a named class never returns
\* a function declared outside every class.
C12_GroupSeparation ==
  \A c \in FileCalls :
    \A r \in Reported(c) :
      IF r.group.label = "Global Scope"
      THEN ~ClassMethod(source, r.item.pos)
      ELSE ~OutsideEveryClass(source, r.item.pos)

\* The method definitions directly in the body of class node k.
DirectMethods(ast, k) ==
  {j \in 1..Len(ast) : ast[j].type = "method_definition" /\ ast[j].parent = k}

Positions(items) == {items[i].pos : i \in 1..Len(items)}

\* C13: the Callable nodes returned for the group of a named class are
\* exactly the method definitions directly in the body of a class declared
\* with that name, without the methods of classes or object literals nested
\* in it.
C13_DirectlyScopedMethods ==
  \A c \in FileCalls :
    \A g \in Range(c.items) :
      (Called(g) /\ g.label # "Global Scope") =>
        \E k \in 1..Len(source) :
          /\ source[k].type = "class_declaration"
          /\ source[k].name = g.label
          /\ Positions(CallOf(g).items) = DirectMethods(source, k)

\* A node_modules directory, or a path inside one.
InNodeModules(abs) == \E i \in 1..Len(abs) : abs[i] = "node_modules"

\* The workspace directory without its node_modules directories and
\* everything inside them.
Pruned(f) ==
  [p \in {q \in Entries(f) : ~InNodeModules(q)} |-> f[p]]

\* The expansions of the Project node and of Folder nodes.
FolderCalls ==
  {c \in calls : c.element.type = "Folder" /\ c.element.fullPath # RootMarker}

\* C14: no node returned for a directory has a path inside a node_modules
\* directory, at any depth, and nothing of a node_modules directory is read:
\* the call returns what it would return without those directories.
C14_NodeModulesNeverShown ==
  \A c \in FolderCalls :
    /\ \A i \in 1..Len(c.items) : ~InNodeModules(c.items[i].fullPath)
    /\ LET r == getChildren(Pruned(fs), source, c.element)
       IN  c.threw = r.threw /\ c.items = r.items

C14_Witness ==
  \E c \in FolderCalls :
    /\ c.element.fullPath = RootPath
    /\ ~c.threw
    /\ \E p \in Entries(fs) :
         Len(p) > 1 /\ InNodeModules(Parent(p)) /\ fs[p] = "dangling"

\* A path that the walk leaves out: in a node_modules directory, ignored, or
\* with a test or configuration file's name at some level below the root.
Excluded(abs) ==
  \/ InNodeModules(abs)
  \/ isIgnored(abs)
  \/ \E i \in 2..Len(abs) : isTestFile(<<abs[i]>>)

Below(abs, dir) ==
  Len(abs) > Len(dir) /\ SubSeq(abs, 1, Len(dir)) = dir

\* An eligible source file exists somewhere beneath the directory dir.
HasEligibleFile(f, dir) ==
  \E p \in Entries(f) :
    /\ Below(RootPath \o p, dir)
    /\ f[p] = "file"
    /\ isJsTs(extname(p[Len(p)]))
    /\ ~Excluded(RootPath \o p)

FolderOf(c, n) ==
  FileTreeItem(n, "Folder", Append(c.element.fullPath, n), "Collapsed", 0)

\* C15: a directory of the expanded directory is returned as a Folder node
\* exactly when it is not excluded and an eligible source file exists
\* somewhere beneath it; a returned Folder node, expanded on the unchanged
\* filesystem, has at least one child.
C15_NoDeadEndFolders ==
  \A c \in FolderCalls :
    /\ \A n \in Names :
         KindAt(fs, Append(c.element.fullPath, n)) \in DirKinds =>
           (FolderOf(c, n) \in Range(c.items)
              <=> (/\ ~Excluded(Append(c.element.fullPath, n))
                   /\ HasEligibleFile(fs, Append(c.element.fullPath, n))))
    /\ \A g \in Range(c.items) :
         (g.type = "Folder" /\ Called(g)) => CallOf(g).items # <<>>

\* C16: every ClassGroup node returned for a file, expanded against the same
\* text, returns at least one Callable node; also when two class declarations
\* have the same name and when a class declaration has no name.
C16_GroupsAreNotEmpty ==
  \A c \in FileCalls :
    \A g \in Range(c.items) :
      Called(g) => (~CallOf(g).threw /\ CallOf(g).items # <<>>)

\* C17: a file is parsed with the TypeScript grammar when its extension is
\* .ts or .tsx and with the JavaScript grammar when it is .js or .jsx, in
\* the class-group extraction and in the method extraction.
C17_GrammarByExtension ==
  \A c \in calls :
    c.parser # "none" =>
      LET ext == extname(c.element.fullPath[Len(c.element.fullPath)])
      IN  /\ ext \in {".ts", ".tsx"} => LanguageOf(c.parser) = "TypeScript"
          /\ ext \in {".js", ".jsx"} => LanguageOf(c.parser) = "JavaScript"

\* The layer of a node: the top node and the project node are Folder items
\* told apart by their path.
NodeKind(item) ==
  CASE item = NoElement -> "none"
    [] item.type = "Folder" /\ item.fullPath = RootMarker -> "Root"
    [] item.type = "Folder" /\ item.fullPath = RootPath -> "Project"
    [] item.type = "Folder" -> "Folder"
    [] item.type = "File" -> "File"
    [] item.type = "Class" -> "ClassGroup"
    [] OTHER -> "Callable"

KindsOfItems(c) == {NodeKind(c.items[i]) : i \in 1..Len(c.items)}

\* C18: getChildren() returns exactly one Root node and getChildren(Root)
\* exactly one Project node; a Project or Folder node has only Folder and
\* File children, a File node only ClassGroup children, a ClassGroup node
\* only Callable children that cannot be expanded, a Callable node none.
C18_StrictlyLayered ==
  \A c \in calls :
    LET kind == NodeKind(c.element)
    IN  /\ kind = "none" =>
             (~c.threw /\ Len(c.items) = 1 /\ KindsOfItems(c) = {"Root"})
        /\ kind = "Root" =>
             (~c.threw /\ Len(c.items) = 1 /\ KindsOfItems(c) = {"Project"})
        /\ kind \in {"Project", "Folder"} => KindsOfItems(c) \subseteq {"Folder", "File"}
        /\ kind = "File" => KindsOfItems(c) \subseteq {"ClassGroup"}
        /\ kind = "ClassGroup" =>
             \A i \in 1..Len(c.items) :
               NodeKind(c.items[i]) = "Callable" /\ c.items[i].collapsibleState = "None"
        /\ kind = "Callable" => (~c.threw /\ c.items = <<>>)

C18_Witness ==
  /\ \E c \in calls : NodeKind(c.element) = "Callable" /\ c.items = <<>>
  /\ \E c \in calls : NodeKind(c.element) = "ClassGroup" /\ c.items # <<>>
  /\ \E c \in calls : NodeKind(c.element) = "Folder" /\ c.items # <<>>

\* C19: two expansions of the same node, made with the same workspace
\* contents and the same coverage map, return the same nodes with the same
\* labels and descriptions, whatever was expanded in between.
C19_ExpansionsIndependent ==
  \A c, d \in calls :
    (c.element = d.element /\ c.coverage = d.coverage) => c.items = d.items

\* The refresh() calls, and those that have started
RefreshIds == Ids \ {0}
Refreshing(id) == tasks[id].kind = "refresh" /\ tasks[id].phase = "running"

\* the tree-change event is fired for the call id in this step
Fires(id) == tasks'[id].fired # tasks[id].fired

\* C20: a refresh() call fires the tree-change event once, in a step taken
\* when none of its three format updates is still pending, never before and
\* never again; and every refresh() call that has started is eventually
\* followed by its event.
C20_RefreshThenEvent ==
  /\ [][\A id \in Ids :
         Fires(id) => /\ Refreshing(id)
                      /\ tasks[id].pending = {}
                      /\ tasks[id].fired = 0
                      /\ tasks'[id].fired = 1]_vars
  /\ \A id \in RefreshIds : Refreshing(id) ~> (tasks[id].fired = 1)

\* a refresh() call over a report that made a reader suspend has completed
\* and fired its event
C20_Witness ==
  \E id \in RefreshIds, fmt \in XmlFormats :
    /\ Awaits(fmt, reports[fmt])
    /\ tasks[id].kind = "refresh" /\ tasks[id].phase = "done"
    /\ tasks[id].fired = 1

-----------------------------------------------------------------------------
(* Test generation (extension.ts) *)

\* the values of the coverageThreshold setting
Thresholds == {25, 95}

\* coverage >= coverageThreshold, on a number that can be NaN or Infinity
GreaterOrEqual(a, n) ==
  \/ a.k = "int" /\ a.n >= n
  \/ a.k = "Infinity"

SkipsAbove(coverage, coverageThreshold) ==
  coverage # Undefined /\ Greater(coverage, Num(coverageThreshold))

\* the coverage check of generateTests
Skips(coverage, coverageThreshold) ==
  coverage # Undefined /\ GreaterOrEqual(coverage, coverageThreshold)

\* A process that was spawned and has not closed; a generation whose close or
\* error event is still to come.
Alive(g) == processes[g].state \in {"running", "killed"}
Open(g) == processes[g].state \in {"running", "killed", "failed"}

Spawned == {g \in GenIds : processes[g].state # "none"}

\* activeTestGenerations.delete(path)
Delete(registry, path) == [registry EXCEPT ![path] = NoGeneration]

\* One invocation of generateTests, in the history.
Request(path, coverage, coverageThreshold, result) ==
  [n |-> Cardinality(requests) + 1, path |-> path, coverage |-> coverage,
   threshold |-> coverageThreshold, result |-> result,
   has |-> activeTestGenerations[path],
   alive |-> {g \in GenIds : Alive(g) /\ processes[g].path = path},
   open |-> {g \in GenIds : Open(g) /\ processes[g].path = path}]

\* generateTests(targetUri), up to the return of withProgress: the guard on
\* the registry, the coverage check, the configuration checks, then spawn and
\* the registration of the process.  spawn gives a process with a pid
\* ("running"), one without ("failed": its error event follows), or throws.
GenerateTests(path, coverageThreshold, configured, outcome) ==
  /\ Cardinality(requests) < MaxRequests
  /\ LET coverage == getFileCoverage(path)
         g == Cardinality(Spawned) + 1
         result ==
           IF activeTestGenerations[path] # NoGeneration THEN "refused"
           ELSE IF Skips(coverage, coverageThreshold) THEN "skipped"
           ELSE IF ~configured THEN "unconfigured"
           ELSE outcome
     IN  /\ requests' = requests \cup {Request(path, coverage, coverageThreshold, result)}
         /\ IF result \in {"running", "failed"}
            THEN /\ g \in GenIds
                 /\ processes' = [processes EXCEPT
                                    ![g] = [path |-> path, state |-> result, progress |-> "open"]]
                 /\ activeTestGenerations' = [activeTestGenerations EXCEPT ![path] = g]
            ELSE /\ outcome = "threw"
                 /\ UNCHANGED <<processes, activeTestGenerations>>
  /\ UNCHANGED notGenVars

\* token.onCancellationRequested: cancelFunction, then resolve().
\* cancelFunction kills and deletes the entry of the path when the process
\* has a pid.
Cancel(g) ==
  /\ processes[g].progress \in {"open", "opening"}
  /\ IF processes[g].state = "failed"
     THEN /\ processes' = [processes EXCEPT ![g].progress = "settled"]
          /\ UNCHANGED activeTestGenerations
     ELSE /\ processes' = [processes EXCEPT
                             ![g].progress = "settled",
                             ![g].state = IF @ = "running" THEN "killed" ELSE @]
          /\ activeTestGenerations' = Delete(activeTestGenerations, processes[g].path)
  /\ UNCHANGED requests
  /\ UNCHANGED notGenVars

DeletedOnFailure(code) == code # 0

\* whether the close handler removes the entry of the path
DeletedOnClose(code) == TRUE

\* childProcess.on('close'): the entry is deleted; a non-zero code rejects,
\* and the catch handler deletes again; code 0 goes on to open the test file.
Close(g, code) ==
  /\ Alive(g)
  /\ activeTestGenerations' =
       IF DeletedOnClose(code) \/ (code # 0 /\ processes[g].progress = "open")
       THEN Delete(activeTestGenerations, processes[g].path)
       ELSE activeTestGenerations
  /\ processes' = [processes EXCEPT
                     ![g].state = "closed",
                     ![g].progress = IF @ = "open"
                                     THEN (IF code = 0 THEN "opening" ELSE "settled")
                                     ELSE @]
  /\ UNCHANGED requests
  /\ UNCHANGED notGenVars

\* The rest of the close handler once openTextDocument / showTextDocument
\* have settled: resolve(), or reject(err) and the catch handler's delete.
OpenDone(g, ok) ==
  /\ processes[g].progress = "opening"
  /\ processes' = [processes EXCEPT ![g].progress = "settled"]
  /\ activeTestGenerations' =
       IF ok THEN activeTestGenerations
       ELSE Delete(activeTestGenerations, processes[g].path)
  /\ UNCHANGED requests
  /\ UNCHANGED notGenVars

\* childProcess.on('error') of a process that could not be spawned: the entry
\* is deleted, the promise rejected.
Error(g) ==
  /\ processes[g].state = "failed"
  /\ processes' = [processes EXCEPT ![g].state = "closed", ![g].progress = "settled"]
  /\ activeTestGenerations' = Delete(activeTestGenerations, processes[g].path)
  /\ UNCHANGED requests
  /\ UNCHANGED notGenVars

\* The workspaces test generation runs in: LCOV reports only, read at once.
GenReports == {rs \in ReportStates : rs.X = Absent /\ rs.Y = Absent}

InitGen ==
  /\ \E rs \in GenReports : LoadFrom(rs)
  /\ TreeAtRest
  /\ ExtAtRest

NextGen ==
  \/ \E path \in Paths, t \in Thresholds, configured \in BOOLEAN,
        outcome \in {"running", "failed", "threw"} :
       GenerateTests(path, t, configured, outcome)
  \/ \E g \in GenIds : Cancel(g)
  \/ \E g \in GenIds, code \in {0, 1} : Close(g, code)
  \/ \E g \in GenIds, ok \in BOOLEAN : OpenDone(g, ok)
  \/ \E g \in GenIds : Error(g)

\* Test generation: invocations, cancellations and process events.
SpecGen == InitGen /\ [][NextGen]_vars

C25_OneProcessPerFile ==
  \A g, h \in GenIds :
    (g # h /\ Alive(g) /\ Alive(h)) => processes[g].path # processes[h].path

\* C26: an entry of the registry belongs to a generation whose process has
\* not closed and whose error event has not come, so a refused invocation
\* found such a generation.
C26_NoLeakedEntry ==
  /\ \A p \in Paths :
       activeTestGenerations[p] # NoGeneration =>
         /\ Open(activeTestGenerations[p])
         /\ processes[activeTestGenerations[p]].path = p
  /\ \A r \in requests : r.result = "refused" => r.open # {}

\* every way a generation ends has happened with the entry gone, and an
\* invocation was refused
C26_Witness ==
  /\ \E g \in GenIds : processes[g].state = "closed"
  /\ \E r \in requests : r.result = "refused"
  /\ \A p \in Paths : activeTestGenerations[p] = NoGeneration

-----------------------------------------------------------------------------
(* isTestFile *)

\* A name is a sequence of pieces of text: words, and the separators "."
\* and "-".  ".json" is written ".", "js", "on", so that the text ".js" is
\* found in it.
testPatterns ==
  << <<".", "test", ".">>, <<".", "spec", ".">>, <<"-", "test", ".">>,
     <<"-", "spec", ".">>, <<"__tests__">>, <<"__test__">>,
     <<"setuptest", ".">>, <<"setuptests", ".", "js">>, <<"setuptests", ".", "ts">>,
     <<"vitest", ".", "config", ".">>, <<"jest", ".", "config", ".">>,
     <<"jest", ".", "setup", ".">>, <<"jest", ".", "teardown", ".">>,
     <<"karma", ".", "conf", ".">>, <<"cypress", ".", "config", ".">>,
     <<"cypress", ".", "js", "on">>, <<"mocha", ".", "opts">>,
     <<"ava", ".", "config", ".">>, <<"jasmine", ".", "js", "on">>,
     <<"test", ".", "config", ".">>, <<"test", "Setup", ".">>,
     <<"test", ".", "setup", ".">>,
     <<".", "eslintrc", ".">>, <<".", "prettierrc", ".">>, <<".", "babelrc", ".">>,
     <<"tsconfig", ".">>, <<"webpack", ".", "config", ".">>,
     <<"rollup", ".", "config", ".">>, <<"vite", ".", "config", ".">>,
     <<"postcss", ".", "config", ".">>, <<"tailwind", ".", "config", ".">>,
     <<".", "stylelintrc">>, <<"nodemon", ".", "js", "on">>,
     <<"package", ".", "js", "on">>, <<"package", "-", "lock", ".", "js", "on">>,
     <<"yarn", ".", "lock">>, <<"pnpm", "-", "lock", ".", "yaml">> >>

\* the pieces base names are made of
NamePieces == {".", "-", "js", "on", "ts", "test", "Test", "package", "a"}
BaseNames == UNION {[1..k -> NamePieces] : k \in 1..MaxNameLen}

\* String.prototype.toLowerCase
LowerPiece(w) ==
  CASE w = "Test" -> "test"
    [] w = "Setup" -> "setup"
    [] OTHER -> w
toLowerCase(s) == [i \in 1..Len(s) |-> LowerPiece(s[i])]

\* String.prototype.includes
Includes(s, t) ==
  \E i \in 0..(Len(s) - Len(t)) : SubSeq(s, i + 1, i + Len(t)) = t

\* pattern.includes('.js') || ... '.ts' || ... '.jsx' || ... '.tsx'
HasSourceExtension(pattern) ==
  \/ Includes(pattern, <<".", "js">>)
  \/ Includes(pattern, <<".", "ts">>)
  \/ Includes(pattern, <<".", "js", "x">>)
  \/ Includes(pattern, <<".", "ts", "x">>)

\* the callback of testPatterns.some
MatchesPattern(basename, pattern) ==
  LET lowercasePattern == toLowerCase(pattern)
  IN  IF HasSourceExtension(pattern) THEN basename = lowercasePattern
      ELSE Includes(basename, lowercasePattern)

\* isTestFile(filename), on the pieces of the file's base name
isTestFileName(filename) ==
  LET basename == toLowerCase(filename)
  IN  \E i \in 1..Len(testPatterns) : MatchesPattern(basename, testPatterns[i])

NotCalled == [called |-> FALSE, value |-> FALSE]

\* isTestFile is called with the name.
CallIsTestFile ==
  /\ ~excluded.called
  /\ excluded' = [called |-> TRUE, value |-> isTestFileName(fileName)]
  /\ UNCHANGED fileName
  /\ UNCHANGED notFnVars

\* The name of another entry is looked at.
NextEntry(name) ==
  /\ excluded.called
  /\ fileName' = name
  /\ excluded' = NotCalled
  /\ UNCHANGED notFnVars

InitNames ==
  /\ CoverageAtRest
  /\ TreeAtRest
  /\ GenAtRest
  /\ LabelAtRest
  /\ LcovAtRest
  /\ WatchAtRest
  /\ CfgAtRest
  /\ fileName \in BaseNames
  /\ excluded = NotCalled

\* a-package.json, a.Test.tsx, setuptests.js
LongerNames ==
  {<<"a", "-", "package", ".", "js", "on">>, <<"a", ".", "Test", ".", "ts", "x">>,
   <<"setuptests", ".", "js">>}

NextNames ==
  \/ CallIsTestFile
  \/ \E name \in LongerNames : NextEntry(name)

\* isTestFile over the base names of the entries of a directory.
SpecNames == InitNames /\ [][NextNames]_vars

\* C22: isTestFile is true of a name exactly when its lower-cased base name
\* equals a pattern that is a full source-file name (one ending in .js, .ts,
\* .jsx or .tsx), or contains one of the other patterns, package.json and the
\* other manifest names among them.
C22_ExclusionMatching ==
  LET basename == toLowerCase(fileName)
      Extension(pattern) ==
        IF Len(pattern) >= 2 /\ pattern[Len(pattern) - 1] = "."
        THEN pattern[Len(pattern)] ELSE ""
      FullSourceFileName(pattern) == Extension(pattern) \in {"js", "ts", "jsx", "tsx"}
      Matches(pattern) ==
        IF FullSourceFileName(pattern) THEN basename = toLowerCase(pattern)
        ELSE Includes(basename, toLowerCase(pattern))
  IN  excluded.called =>
        (excluded.value <=> \E i \in 1..Len(testPatterns) : Matches(testPatterns[i]))

-----------------------------------------------------------------------------
(* Labels of arrow functions *)

\* what the arguments of a call are
ArgKinds == {"arrow_function", "identifier"}
ArgLists == UNION {[1..k -> ArgKinds] : k \in 1..MaxArgs}

\* the text of the callee, of the declared name or of the assignment's left
\* side; "" when the node is missing
Callees == {"f", "obj.on", ""}

\* An arrow function with its parent: an argument of a call or of a new
\* expression (args: the arguments, at: its place among them, from 1), or
\* the value of a declarator, an assignment or a property.
ArgumentSites ==
  {[parent |-> "arguments", grand |-> g, name |-> c, args |-> as, at |-> k] :
     g \in {"call_expression", "new_expression"}, c \in Callees,
     as \in ArgLists, k \in 1..MaxArgs}
NamedSites ==
  {[parent |-> p, grand |-> "", name |-> c, args |-> <<>>, at |-> 0] :
     p \in {"variable_declarator", "assignment_expression", "pair"}, c \in Callees}
Sites ==
  {s \in ArgumentSites : s.at <= Len(s.args) /\ s.args[s.at] = "arrow_function"}

\* parent.children of an arguments node: "(", the arguments separated by
\* ",", and ")"
RECURSIVE Separated(_)
Separated(as) ==
  IF Len(as) <= 1 THEN as
  ELSE <<Head(as), <<",", 0>> >> \o Separated(Tail(as))

\* the arguments are told apart by their place
Children(s) ==
  << <<"(", 0>> >> \o Separated([i \in 1..Len(s.args) |-> <<"argument", i>>])
    \o << <<")", 0>> >>

\* Array.prototype.indexOf, from 0
IndexOf(seq, x) == (CHOOSE i \in 1..Len(seq) : seq[i] = x) - 1

\* text || '<anonymous>'
OrAnonymous(text) == IF text = "" THEN <<"<anonymous>">> ELSE <<text>>

\* the label getMethodsFromFile gives an arrow function, as pieces of text
ListedLabel(s) ==
  CASE s.parent = "variable_declarator" -> OrAnonymous(s.name)
    [] s.parent = "assignment_expression" -> OrAnonymous(s.name)
    [] s.parent = "pair" -> OrAnonymous(s.name)
    [] s.parent = "arguments" ->
         IF s.grand = "call_expression"
         THEN <<s.name, " callback[",
                ToString(IndexOf(Children(s), <<"argument", s.at>>)), "]">>
         ELSE <<"callback">>

\* the label createMethodTreeItem gives an arrow function: '' unless the
\* parent is a declarator or an assignment
DisplayedLabel(s) ==
  CASE s.parent = "variable_declarator" -> OrAnonymous(s.name)
    [] s.parent = "assignment_expression" -> OrAnonymous(s.name)
    [] OTHER -> <<>>

\* The arrow function is labelled: by createMethodTreeItem for the Callable
\* node that getMethodsForClass returns, and by getMethodsFromFile.
LabelArrow ==
  /\ ~labels.called
  /\ labels' = [called |-> TRUE, displayed |-> DisplayedLabel(site),
                listed |-> ListedLabel(site)]
  /\ UNCHANGED site
  /\ UNCHANGED notLabelVars

\* Another arrow function of the file is looked at.
NextArrow(s) ==
  /\ labels.called
  /\ s # site
  /\ site' = s
  /\ labels' = NoLabel
  /\ UNCHANGED notLabelVars

InitLabel ==
  /\ CoverageAtRest
  /\ TreeAtRest
  /\ GenAtRest
  /\ FnAtRest
  /\ LcovAtRest
  /\ WatchAtRest
  /\ CfgAtRest
  /\ site \in Sites
  /\ labels = NoLabel

NextLabel ==
  \/ LabelArrow
  \/ \E s \in NamedSites : NextArrow(s)

\* The labels of the arrow functions of a file.
SpecLabel == InitLabel /\ [][NextLabel]_vars

\* C23: the Callable node of an arrow function that is the k-th argument of a
\* call (k from 0) is labelled "<callee> callback[k]", and "callback" when
\* the callee's name is unavailable.
C23_CallbackLabel ==
  (labels.called /\ site.parent = "arguments") =>
     labels.displayed =
       IF site.grand = "call_expression" /\ site.name # ""
       THEN <<site.name, " callback[", ToString(site.at - 1), "]">>
       ELSE <<"callback">>

-----------------------------------------------------------------------------
(* Format Z, line by line *)

\* The lines a record of an LCOV file can hold between its SF line and its
\* end_of_record line, as line.trim().split(':') gives them.
BodyLines ==
  {<<"LF", "4">>, <<"LH", "1">>, <<"LH", "3">>, <<"DA", "1,1">>, <<"TN", "">>}
Bodies == UNION {[1..k -> BodyLines] : k \in 0..MaxLcovLines}

\* One record for the file a.js.
RecordLines(body) == << <<"SF", "a.js">> >> \o body \o << <<"end_of_record">> >>

\* updateFromLcov on the text of an existing file: the entries it sets,
\* starting from an empty map.
ReadLcov(lines) == ApplyWrites(EmptyMap, LcovRecords(parseLcov(lines), <<>>).writes)

\* updateFromLcov reads the file.
UpdateFromLcov ==
  /\ ~lcovResult.read
  /\ lcovResult' = [read |-> TRUE, map |-> ReadLcov(lcovLines)]
  /\ UNCHANGED lcovLines
  /\ UNCHANGED notLcovVars

\* The test run writes the file again, with a second record after the first.
RewriteLcov(body) ==
  /\ lcovResult.read
  /\ Len(lcovLines) <= MaxLcovLines + 2
  /\ lcovLines' = lcovLines \o << <<"SF", "b.js">> >> \o body \o << <<"end_of_record">> >>
  /\ lcovResult' = NotRead
  /\ UNCHANGED notLcovVars

InitLcov ==
  /\ CoverageAtRest
  /\ TreeAtRest
  /\ GenAtRest
  /\ FnAtRest
  /\ LabelAtRest
  /\ WatchAtRest
  /\ CfgAtRest
  /\ \E body \in Bodies : lcovLines = RecordLines(body)
  /\ lcovResult = NotRead

NextLcov ==
  \/ UpdateFromLcov
  \/ \E body \in {<< <<"LF", "4">>, <<"LH", "3">> >>} : RewriteLcov(body)

\* The LCOV reader over the texts of a report file.
SpecLcov == InitLcov /\ [][NextLcov]_vars

\* C24: a record that starts with an SF line, holds one LF and one LH line
\* and ends with end_of_record gives the SF path the entry
\* round(100 * LH / LF), in whatever order the two lines come and whatever
\* other lines the record holds.
C24_LcovAggregation ==
  LET body == SubSeq(lcovLines, 2, (CHOOSE i \in 1..Len(lcovLines) :
                                      /\ lcovLines[i] = <<"end_of_record">>
                                      /\ \A j \in 1..(i - 1) : lcovLines[j] # <<"end_of_record">>) - 1)
      Of(type) == {i \in 1..Len(body) : body[i][1] = type}
  IN  (lcovResult.read /\ Cardinality(Of("LF")) = 1 /\ Cardinality(Of("LH")) = 1) =>
        LET found == ParseInt(body[CHOOSE i \in Of("LF") : TRUE][2])
            hit == ParseInt(body[CHOOSE i \in Of("LH") : TRUE][2])
        IN  lcovResult.map[Resolve("a.js")] = Num(RoundPercent(hit.n, found.n))

-----------------------------------------------------------------------------
(* Overlapping refreshes *)

\* The map one call makes of the report files, alone and from an empty map.
Current(rs) == WithContributions([pre |-> EmptyMap, read |-> rs], {})

\* C27: when a refresh() that started while an earlier one was in flight,
\* the report files having changed between the two starts, has completed
\* and no call is in flight any more, every path of the current reports
\* holds the value computed from the current reports.
C27_LaterRefreshWins ==
  \A id \in raced :
    (tasks[id].phase = "done" /\ Running(tasks) = {}) =>
      \A p \in Paths :
        Current(reports)[p] # Undefined => coverageData[p] = Current(reports)[p]

-----------------------------------------------------------------------------
(* The load made at activation *)

\* the call the constructor makes has completed
Loaded == tasks[0].kind = "load" /\ tasks[0].phase = "done"

\* C28: when the coverage load that the constructor starts has completed,
\* the tree-change event has been fired for it.
C28_LoadThenEvent == Loaded => tasks[0].fired >= 1

-----------------------------------------------------------------------------
(* The coverage file watcher (extension.ts) *)

MaxSettingChanges == 2

\* values of the testGenerator.coveragePath setting, as path segments
CoveragePaths == {DefaultCoveragePath, <<"coverage", "lcov.info">>, <<"out", "coverage.xml">>}

\* files of the workspace, relative to its root
WatchedFiles == {d \o p : d \in {<<>>, <<"sub">>}, p \in CoveragePaths}

RECURSIVE EndsWith(_, _)
EndsWith(file, segments) ==
  IF segments = <<>> THEN TRUE
  ELSE IF file = <<>> THEN FALSE
  ELSE /\ file[Len(file)] = segments[Len(segments)]
       /\ EndsWith(SubSeq(file, 1, Len(file) - 1), SubSeq(segments, 1, Len(segments) - 1))

\* RelativePattern(workspaceFolder, `**/${coveragePath}`): any directories,
\* then the segments of the path.
Matches(pattern, file) == pattern[1] = "**" /\ EndsWith(file, Tail(pattern))

\* The watchers whose handler for this kind of event runs for this file.
Listeners(file, kind) ==
  {i \in DOMAIN watchers : kind \in watchers[i].handlers /\ Matches(watchers[i].pattern, file)}

\* the refresh() call a handler makes: the next call of the provider
CallRefresh == \E id \in Ids \ {0} : StartRefresh(id)

\* onDidChangeConfiguration: a new watcher when the change affects
\* testGenerator.coveragePath, pushed to the subscriptions as it is created;
\* then refresh().
OnDidChangeConfiguration(affects, path) ==
  /\ Len(watchers) <= MaxSettingChanges
  /\ IF affects
     THEN /\ path # coveragePath
          /\ coveragePath' = path
          /\ watchers' = Append(watchers, Watcher(path, {}))
     ELSE /\ path = coveragePath
          /\ UNCHANGED <<coveragePath, watchers>>
  /\ CallRefresh
  /\ UNCHANGED delivered
  /\ UNCHANGED treeVars
  /\ UNCHANGED <<genVars, fnVars, labelVars, lcovVars, cfgVars>>

\* The host delivers a create, change or delete event of a file: the handlers
\* of the watchers that match it run.  Only the watcher of activate has
\* handlers, so at most one refresh() is called.
FileEvent(file, kind) ==
  /\ IF Listeners(file, kind) # {} THEN CallRefresh ELSE UNCHANGED covVars
  /\ delivered' = [file |-> file, kind |-> kind, setting |-> coveragePath,
                   changed |-> Len(watchers) > 1,
                   refreshed |-> Listeners(file, kind) # {}]
  /\ UNCHANGED <<coveragePath, watchers>>
  /\ UNCHANGED treeVars
  /\ UNCHANGED <<genVars, fnVars, labelVars, lcovVars, cfgVars>>

\* the reports at activation: coverage/coverage.xml, the file the setting's
\* default names, or none
WatchReports == {rs \in ViewReports : rs.Y = Absent /\ rs.Z = Absent}

InitWatch ==
  /\ \E rs \in WatchReports : LoadFrom(rs)
  /\ TreeAtRest
  /\ ExtAtRest

NextWatch ==
  \/ \E affects \in BOOLEAN, path \in CoveragePaths : OnDidChangeConfiguration(affects, path)
  \/ \E file \in WatchedFiles, kind \in EventKinds : FileEvent(file, kind)
  \/ RunJob

SpecWatch == InitWatch /\ [][NextWatch]_vars

\* C29: a file event delivered after the coveragePath setting changed calls
\* refresh() exactly when the file is at the path the setting now gives.
C29_WatcherFollowsSetting ==
  (delivered.kind # "none" /\ delivered.changed) =>
    (delivered.refreshed <=> Matches(Pattern(delivered.setting), delivered.file))

-----------------------------------------------------------------------------
(* Saving the configuration (ConfigurationView, ConfigManager) *)

MaxSaves == 2

\* the configurations the form of the view sends: every field is a value
ViewConfigs == [coverageThreshold : Thresholds, apiBase : {"", "http://h"}]

\* saveProjectConfig: the object written to covegen.json, with the optional
\* fields only when they are truthy
commandLineConfig(config) ==
  LET required == [k \in {"--coverage-threshold"} |-> config.coverageThreshold]
  IN  IF config.apiBase \notin {"", NoApiBase}
      THEN required @@ ("--api-base" :> config.apiBase)
      ELSE required

ConfigFile(config) == [exists |-> TRUE, json |-> commandLineConfig(config)]

\* readProjectConfig: null without a file, else the defaults overridden by
\* the fields of the file
readProjectConfig(file) ==
  IF ~file.exists THEN NoConfig
  ELSE [has |-> TRUE,
        value |-> [coverageThreshold |->
                     IF "--coverage-threshold" \in DOMAIN file.json
                     THEN file.json["--coverage-threshold"]
                     ELSE DEFAULT_CONFIG.coverageThreshold,
                   apiBase |->
                     IF "--api-base" \in DOMAIN file.json
                     THEN file.json["--api-base"]
                     ELSE DEFAULT_CONFIG.apiBase]]

\* getConfig: the cache after the call; the configuration returned is its value
getConfig(cache, file, vsCodeConfig) ==
  IF cache.has THEN cache
  ELSE IF readProjectConfig(file).has THEN readProjectConfig(file)
  ELSE [has |-> TRUE, value |-> vsCodeConfig]

\* _update: the html of a project view is made from getConfig, that of a
\* global view from the settings
UpdateView(project, cache, file, vsCodeConfig) ==
  IF project THEN getConfig(cache, file, vsCodeConfig) ELSE cache

\* What _saveConfiguration reports after saveProjectConfig has returned: the
\* value returned is not looked at.
ProjectSaveReport(success) == [webview |-> "success", window |-> "information"]

\* message saveConfig: clearCache, then the save of the mode the view is in,
\* up to its first await
SaveConfiguration(config) ==
  /\ saves < MaxSaves
  /\ saves' = saves + 1
  /\ cachedConfig' = NoConfig
  /\ saving' = saving \cup {[n |-> saves + 1,
                             mode |-> IF isProjectConfig THEN "project" ELSE "vscode",
                             config |-> config]}
  /\ UNCHANGED <<covegen, settings, isProjectConfig, saved>>
  /\ UNCHANGED notCfgVars

\* message createProjectConfig: the settings are saved as a project file
CreateProjectConfig ==
  /\ saves < MaxSaves
  /\ saves' = saves + 1
  /\ saving' = saving \cup {[n |-> saves + 1, mode |-> "create",
                             config |-> [coverageThreshold |-> settings.coverageThreshold,
                                         apiBase |-> IF settings.apiBase = NoApiBase THEN ""
                                                     ELSE settings.apiBase]]}
  /\ UNCHANGED <<covegen, settings, cachedConfig, isProjectConfig, saved>>
  /\ UNCHANGED notCfgVars

\* the save started by the n-th message, while it waits
Pending(n) == {s \in saving : s.n = n}

\* fs.promises.writeFile settles: saveProjectConfig sets the cache and
\* returns true, or logs and returns false; then the rest of the caller.
WriteSettled(s, ok) ==
  /\ s.mode \in {"project", "create"}
  /\ saving' = saving \ {s}
  /\ LET file == IF ok THEN ConfigFile(s.config) ELSE covegen
         cache == IF ok THEN [has |-> TRUE, value |-> s.config] ELSE cachedConfig
         done == [n |-> s.n, mode |-> s.mode, config |-> s.config, written |-> ok,
                  webview |-> "none", window |-> "none",
                  before |-> cachedConfig, after |-> cache]
     IN  /\ covegen' = file
         /\ IF s.mode = "project"
            THEN \* the two success messages, then _refreshConfiguration
                 /\ saved' = [done EXCEPT !.webview = ProjectSaveReport(ok).webview,
                                          !.window = ProjectSaveReport(ok).window]
                 /\ isProjectConfig' = file.exists
                 /\ cachedConfig' = UpdateView(file.exists, NoConfig, file, settings)
            ELSE IF ok
            THEN /\ saved' = [done EXCEPT !.window = "information"]
                 /\ isProjectConfig' = TRUE
                 /\ cachedConfig' = UpdateView(TRUE, cache, file, settings)
            ELSE /\ saved' = [done EXCEPT !.window = "error"]
                 /\ cachedConfig' = cache
                 /\ UNCHANGED isProjectConfig
  /\ UNCHANGED <<settings, saves>>
  /\ UNCHANGED notCfgVars

\* the write of the n-th save settles
WriteDone(n, ok) ==
  /\ Pending(n) # {}
  /\ LET s == CHOOSE r \in Pending(n) : TRUE IN WriteSettled(s, ok)

\* The updates of the settings, key by key, settle: updated is the number of
\* keys written before an update was rejected (2: none was).
UpdateSettled(s, updated) ==
  /\ s.mode = "vscode"
  /\ saving' = saving \ {s}
  /\ settings' = [coverageThreshold |-> IF updated >= 1 THEN s.config.coverageThreshold
                                        ELSE settings.coverageThreshold,
                  apiBase |-> IF updated >= 2 THEN s.config.apiBase ELSE settings.apiBase]
  /\ LET done == [n |-> s.n, mode |-> s.mode, config |-> s.config, written |-> updated = 2,
                  webview |-> "none", window |-> "none",
                  before |-> cachedConfig, after |-> cachedConfig]
     IN  IF updated = 2
         THEN /\ saved' = [done EXCEPT !.webview = "success", !.window = "information"]
              /\ isProjectConfig' = covegen.exists
              /\ cachedConfig' = UpdateView(covegen.exists, NoConfig, covegen, settings')
         ELSE /\ saved' = [done EXCEPT !.webview = "error", !.window = "error"]
              /\ UNCHANGED <<cachedConfig, isProjectConfig>>
  /\ UNCHANGED <<covegen, saves>>
  /\ UNCHANGED notCfgVars

\* the updates of the n-th save settle
UpdateDone(n, updated) ==
  /\ Pending(n) # {}
  /\ LET s == CHOOSE r \in Pending(n) : TRUE IN UpdateSettled(s, updated)

\* message useVSCodeConfig
SwitchToVSCodeConfig ==
  /\ isProjectConfig
  /\ isProjectConfig' = FALSE
  /\ UNCHANGED <<covegen, settings, cachedConfig, saving, saves, saved>>
  /\ UNCHANGED notCfgVars

\* another caller of getConfig, with nothing cached
GetConfig ==
  /\ ~cachedConfig.has
  /\ cachedConfig' = getConfig(cachedConfig, covegen, settings)
  /\ UNCHANGED <<covegen, settings, isProjectConfig, saving, saves, saved>>
  /\ UNCHANGED notCfgVars

\* The view is opened in a workspace with or without a covegen.json.
InitCfg ==
  /\ CoverageAtRest
  /\ TreeAtRest
  /\ GenAtRest
  /\ FnAtRest
  /\ LabelAtRest
  /\ LcovAtRest
  /\ WatchAtRest
  /\ covegen \in {NoFile} \cup {ConfigFile(c) : c \in ViewConfigs}
  /\ settings = DEFAULT_CONFIG
  /\ isProjectConfig = covegen.exists
  /\ cachedConfig = UpdateView(covegen.exists, NoConfig, covegen, settings)
  /\ saving = {}
  /\ saves = 0
  /\ saved = NoSave

NextCfg ==
  \/ \E config \in ViewConfigs : SaveConfiguration(config)
  \/ CreateProjectConfig
  \/ \E n \in 1..MaxSaves, ok \in BOOLEAN : WriteDone(n, ok)
  \/ \E n \in 1..MaxSaves, updated \in 0..2 : UpdateDone(n, updated)
  \/ SwitchToVSCodeConfig
  \/ GetConfig

SpecCfg == InitCfg /\ [][NextCfg]_vars

\* C30: a save in project mode whose write of covegen.json failed posts and
\* shows an error and no success message, and leaves the cache as it was.
C30_SuccessOnlyWhenPersisted ==
  (saved.mode = "project" /\ ~saved.written) =>
    /\ saved.webview = "error"
    /\ saved.window = "error"
    /\ saved.after = saved.before

====
